---- MODULE Spec2Model ----
(***************************************************************************)
(* Model of the audiomixer binding (binding/audiomixer-binding.c): the     *)
(* three verb handlers volume, mute and zone, and session_comm, the        *)
(* connect/write/read/close exchange with the media-session daemon over a  *)
(* local stream socket.  Strings are sequences of one-character strings.   *)
(***************************************************************************)
EXTENDS Integers, Sequences, FiniteSets, TLC

\* ---------------------------------------------------------------- constants
\* strlen(NAME), NAME = "pipewire-media-session"
NameLen == 22
\* sizeof(addr.sun_path)
SunPathSize == 108
\* sizeof(command) in the verb handlers
CommandSize == 100
\* sizeof(reply) in the verb handlers
ReplySize == 10

\* ------------------------------------------------------------------- bounds
\* how many times one write or read loop may see EAGAIN/EINTR in a row
MaxRetries == 1

\* binder threads that may run a verb callback
Procs == {1, 2}
\* descriptors the kernel hands out
Fds == {3, 4}

NULL == "NULL"
Verbs == {"volume", "mute", "zone"}

\* ------------------------------------------------------------------ strings
Digits == <<"0", "1", "2", "3", "4", "5", "6", "7", "8", "9">>

DigitVal(c) == CHOOSE d \in 0..9 : Digits[d + 1] = c

IsDigit(c) == \E d \in 0..9 : Digits[d + 1] = c

IsSpace(c) == c = " "

Min(a, b) == IF a < b THEN a ELSE b

\* the text of a verb name
VerbText(v) ==
  CASE v = "volume" -> <<"v", "o", "l", "u", "m", "e">>
    [] v = "mute" -> <<"m", "u", "t", "e">>
    [] v = "zone" -> <<"z", "o", "n", "e">>

RECURSIVE UDec(_)
\* decimal digits of a natural number
UDec(k) == IF k < 10 THEN <<Digits[k + 1]>> ELSE UDec(k \div 10) \o <<Digits[(k % 10) + 1]>>

\* printf("%d", k)
FmtInt(k) == IF k < 0 THEN <<"-">> \o UDec(0 - k) ELSE UDec(k)

RECURSIVE DigitsVal(_, _, _)
\* value of the run of digits of s that starts at index i, acc so far
DigitsVal(s, i, acc) ==
  IF i > Len(s) \/ ~IsDigit(s[i]) THEN acc
  ELSE DigitsVal(s, i + 1, acc * 10 + DigitVal(s[i]))

RECURSIVE SkipSpace(_, _)
SkipSpace(s, i) == IF i <= Len(s) /\ IsSpace(s[i]) THEN SkipSpace(s, i + 1) ELSE i

\* atoi(s): leading white space, an optional sign, then digits up to the
\* first character that is not a digit; 0 when there is no digit
atoi(s) ==
  LET i == SkipSpace(s, 1) IN
    IF i <= Len(s) /\ s[i] = "-" THEN 0 - DigitsVal(s, i + 1, 0)
    ELSE IF i <= Len(s) /\ s[i] = "+" THEN DigitsVal(s, i + 1, 0)
    ELSE DigitsVal(s, i, 0)

\* snprintf(buf, size, ...) of a text: at most size - 1 characters are stored
Snprintf(size, text) == SubSeq(text, 1, Min(Len(text), size - 1))

\* the text "<verb> <role> <n>"
CommandText(v, rl, k) == VerbText(v) \o <<" ">> \o rl \o <<" ">> \o FmtInt(k)

\* ----------------------------------------------------------- verb handlers
\* VerbMax with the zone handler keeping the volume handler's upper end
VerbMax_ZoneAsVolume(v) ==
  CASE v = "volume" -> 100
    [] v = "mute" -> 1
    [] v = "zone" -> 100

\* upper end of the inclusive range each handler accepts (the lower end is 0)
VerbMax(v) ==
  CASE v = "volume" -> 100
    [] v = "mute" -> 1
    [] v = "zone" -> 4

\* the info text of afb_req_fail for a value out of range
InvalidMsg(v) ==
  CASE v = "volume" -> "Invalid volume value (must be between 0 and 100)"
    [] v = "mute" -> "Invalid mute value (must be between 0 and 1)"
    [] v = "zone" -> "Invalid mute value (must be between 0 and 4)"

CommFailedMsg == "media-session communication failed"

DaemonFailedMsg == "media-session replied -1"

\* afb_req_fail(request, "failed", info)
ReqFail(info) == [status |-> "failed", info |-> info, key |-> NULL, val |-> 0]

\* afb_req_success(request, {key: val}, NULL)
ReqSuccess(k, x) == [status |-> "success", info |-> NULL, key |-> k, val |-> x]

\* ------------------------------------------------------------------- inputs
\* a role of L characters
RoleOfLen(L) == [i \in 1..L |-> "r"]

DefaultRole == <<"d", "e", "f", "a", "u", "l", "t">>

\* roles a caller passes: a short one, and one long enough that
\* "volume <role> 100" needs exactly CommandSize characters
Roles == {DefaultRole, RoleOfLen(CommandSize - 11)}

\* value arguments a caller passes (NoValue: the request has no value)
NoValue == [given |-> FALSE, text |-> <<>>]

Given(t) == [given |-> TRUE, text |-> t]

ValueTexts == {<<"0">>, <<"1">>, <<"4", "2">>, <<"1", "0", "0">>,
               <<"1", "0", "1">>, <<"-", "1">>}

Values == {NoValue} \cup {Given(t) : t \in ValueTexts}

\* getenv("XDG_RUNTIME_DIR") == NULL
Unset == -1

\* XDG_RUNTIME_DIR: unset, or set to a directory of this many characters
\* (84 is the longest that fits, 85 does not)
RuntimeDirs == {Unset, SunPathSize - NameLen - 2, SunPathSize - NameLen - 1}

\* ------------------------------------------------------------------- daemon
\* 12 bytes, more than the reply buffer holds
LongReply == <<"1", "2", "3", "4", "5", "6", "7", "8", "9", "0", "1", "2">>

NegReply == <<"-", "1">>

SpacePos(w) == {i \in 1..Len(w) : w[i] = " "}

\* the request the daemon makes of the bytes w it received: well formed
\* when it is three tokens separated by single spaces and names a verb
DaemonParse(w) ==
  LET sp == SpacePos(w) IN
    IF Cardinality(sp) # 2 THEN [ok |-> FALSE]
    ELSE LET s1 == CHOOSE i \in sp : \A j \in sp : i <= j
             s2 == CHOOSE i \in sp : \A j \in sp : i >= j
             vt == SubSeq(w, 1, s1 - 1)
             num == SubSeq(w, s2 + 1, Len(w))
         IN IF (\E v \in Verbs : VerbText(v) = vt) /\ s2 > s1 + 1 /\ Len(num) > 0
            THEN [ok |-> TRUE,
                  verb |-> CHOOSE v \in Verbs : VerbText(v) = vt,
                  role |-> SubSeq(w, s1 + 1, s2 - 1),
                  n |-> atoi(num)]
            ELSE [ok |-> FALSE]

\* the daemon's store when it holds nothing
NoEntry == [verb |-> NULL, role |-> <<>>, val |-> 0]

\* the value the daemon holds for (verb, role) when its store is st: the
\* stored one for the key it tracks, dflt for any other key
DaemonCurrent(st, v, rl, dflt) ==
  IF st.verb = v /\ st.role = rl THEN st.val ELSE dflt

\* the store after the cooperative daemon handled the bytes w: a request
\* with a value >= 0 stores it, a query (negative) stores nothing
DaemonStore(st, w) ==
  LET q == DaemonParse(w) IN
    IF q.ok /\ q.n >= 0 THEN [verb |-> q.verb, role |-> q.role, val |-> q.n]
    ELSE st

\* the reply of the cooperative daemon to the bytes w: the current value
\* after the request, or -1 for a request it cannot parse
DaemonAnswer(st, w, dflt) ==
  LET q == DaemonParse(w) IN
    IF ~q.ok THEN NegReply
    ELSE FmtInt(DaemonCurrent(DaemonStore(st, w), q.verb, q.role, dflt))

\* values the daemon may hold for a key the model does not track
DaemonDefaults == {0, 3}

\* -------------------------------------------------------------------- state
VARIABLES
  active,       \* the binder threads that receive requests
  env,          \* the environment's XDG_RUNTIME_DIR, as its length
  pc,           \* where each thread is in its verb callback
  verb,         \* the verb the callback serves
  role,         \* afb_req_value(request, "role")
  value,        \* afb_req_value(request, "value")
  n,            \* the handler's int (volume, mute or zone)
  command,      \* char command[100]
  reply,        \* char reply[10], the bytes before the terminator
  runtime_dir,  \* session_comm: getenv("XDG_RUNTIME_DIR"), as its length
  fd,           \* session_comm: the descriptor
  r,            \* session_comm: the last result of write or read
  ret,          \* what session_comm returned
  resp,         \* the replies made to the request (afb_req_fail/success)
  errlog,       \* what session_comm printed on stderr during the call
  trace,        \* the socket system calls of the call, in order
  retries,      \* EAGAIN/EINTR results seen in the current loop
  wire,         \* the bytes the daemon received on the call's connection
  dmode,        \* how the daemon answered the call's request
  fdtab,        \* kernel: the thread whose open socket each descriptor is
  store,        \* daemon: the value it holds, with its verb and role
  prevSet       \* the last set request answered with success, if still current

locals == <<verb, role, value, n, command, reply, runtime_dir, fd, r, ret>>

ghost == <<errlog, trace, retries, wire, dmode, prevSet>>

vars == <<active, env, pc, verb, role, value, n, command, reply, runtime_dir, fd,
          r, ret, resp, errlog, trace, retries, wire, dmode, fdtab, store,
          prevSet>>

Set(f, p, x) == [f EXCEPT ![p] = x]

InitCommon ==
  /\ pc = [p \in Procs |-> "idle"]
  /\ verb = [p \in Procs |-> NULL]
  /\ role = [p \in Procs |-> <<>>]
  /\ value = [p \in Procs |-> NoValue]
  /\ n = [p \in Procs |-> -1]
  /\ command = [p \in Procs |-> <<>>]
  /\ reply = [p \in Procs |-> <<>>]
  /\ runtime_dir = [p \in Procs |-> Unset]
  /\ fd = [p \in Procs |-> -1]
  /\ r = [p \in Procs |-> 0]
  /\ ret = [p \in Procs |-> 0]
  /\ resp = [p \in Procs |-> <<>>]
  /\ errlog = [p \in Procs |-> <<>>]
  /\ trace = [p \in Procs |-> <<>>]
  /\ retries = [p \in Procs |-> 0]
  /\ wire = [p \in Procs |-> <<>>]
  /\ dmode = [p \in Procs |-> NULL]
  /\ fdtab = [f \in Fds |-> 0]
  /\ store = NoEntry
  /\ prevSet = NoEntry

\* one verb call at a time
Init == active = {1} /\ env \in RuntimeDirs /\ InitCommon

\* the binder dispatches requests to both threads, so calls interleave
InitConc == active = Procs /\ env \in RuntimeDirs /\ InitCommon

\* the requests thread p is sent: all of them when calls come one at a
\* time; when calls interleave, volume requests for the short role, queries
\* for the first thread and sets for the others
CallInputs(p) ==
  IF Cardinality(active) = 1
  THEN Verbs \X Roles \X Values
  ELSE {"volume"} \X {DefaultRole} \X
         (IF p = 1 THEN {NoValue} ELSE {Given(<<"1">>)})

\* ------------------------------------------------------------ system calls
\* the record of a system call of thread p on descriptor f; ok tells whether
\* f was an open socket of p when the call was made
Ev(op, p, f) == [op |-> op, fd |-> f, ok |-> f \in Fds /\ fdtab[f] = p]

\* LowestFree with one descriptor kept in a variable all calls share
LowestFree_Fixed(tab) == 3

\* socket(): the lowest free descriptor, -1 when there is none
LowestFree(tab) ==
  IF \E f \in Fds : tab[f] = 0
  THEN CHOOSE f \in Fds : tab[f] = 0 /\ \A g \in Fds : tab[g] = 0 => f <= g
  ELSE -1

\* CloseFd that keeps the connection for the next call
CloseFd_Keep(tab, p, f) == tab

\* close(f) by thread p
CloseFd(tab, p, f) == IF f \in Fds /\ tab[f] = p THEN [tab EXCEPT ![f] = 0] ELSE tab

\* CloseTrace with the descriptor closed a second time
CloseTrace_Twice(p, evs) == evs \o <<Ev("close", p, fd[p]), Ev("close", p, fd[p])>>

\* the system calls of "close(fd)" after the calls evs
CloseTrace(p, evs) == evs \o <<Ev("close", p, fd[p])>>

\* FailClose without the close: "return -1;" alone
FailClose_Leak(p, msgs, evs) ==
  /\ errlog' = Set(errlog, p, errlog[p] \o msgs)
  /\ trace' = Set(trace, p, trace[p] \o evs)
  /\ fdtab' = fdtab
  /\ ret' = Set(ret, p, -1)
  /\ retries' = Set(retries, p, 0)
  /\ pc' = Set(pc, p, "return")

\* "close(fd); return -1;" after printing msgs and making the calls evs
FailClose(p, msgs, evs) ==
  /\ errlog' = Set(errlog, p, errlog[p] \o msgs)
  /\ trace' = Set(trace, p, trace[p] \o CloseTrace(p, evs))
  /\ fdtab' = CloseFd(fdtab, p, fd[p])
  /\ ret' = Set(ret, p, -1)
  /\ retries' = Set(retries, p, 0)
  /\ pc' = Set(pc, p, "return")

\* ------------------------------------------------------------------ actions
\* the binder invokes the callback of verb v with the request's arguments
Call(p, v, rl, val) ==
  /\ p \in active
  /\ <<v, rl, val>> \in CallInputs(p)
  /\ pc[p] = "idle"
  /\ pc' = Set(pc, p, "handler")
  /\ verb' = Set(verb, p, v)
  /\ role' = Set(role, p, rl)
  /\ value' = Set(value, p, val)
  /\ n' = Set(n, p, -1)
  /\ UNCHANGED <<active, env, command, reply, runtime_dir, fd, r, ret, resp, fdtab,
                 store, ghost>>

\* ParseValue without the "return" after afb_req_fail
ParseValue_NoReturn(p) ==
  /\ pc[p] = "handler"
  /\ LET k == IF value[p].given THEN atoi(value[p].text) ELSE -1 IN
       /\ n' = Set(n, p, k)
       /\ resp' = IF value[p].given /\ (k < 0 \/ k > VerbMax(verb[p]))
                  THEN Set(resp, p, Append(resp[p], ReqFail(InvalidMsg(verb[p]))))
                  ELSE resp
       /\ command' = Set(command, p,
                         Snprintf(CommandSize, CommandText(verb[p], role[p], k)))
       /\ pc' = Set(pc, p, "getenv")
  /\ UNCHANGED <<active, env, verb, role, value, reply, runtime_dir, fd, r, ret,
                 fdtab, store, ghost>>

\* the handler parses and checks the value and formats the command
ParseValue(p) ==
  /\ pc[p] = "handler"
  /\ LET k == IF value[p].given THEN atoi(value[p].text) ELSE -1 IN
       /\ n' = Set(n, p, k)
       /\ IF value[p].given /\ (k < 0 \/ k > VerbMax(verb[p]))
          THEN /\ resp' = Set(resp, p, Append(resp[p], ReqFail(InvalidMsg(verb[p]))))
               /\ pc' = Set(pc, p, "done")
               /\ UNCHANGED command
          ELSE /\ command' = Set(command, p,
                                 Snprintf(CommandSize, CommandText(verb[p], role[p], k)))
               /\ pc' = Set(pc, p, "getenv")
               /\ UNCHANGED resp
  /\ UNCHANGED <<active, env, verb, role, value, reply, runtime_dir, fd, r, ret,
                 fdtab, store, ghost>>

\* GetEnv without the test for NULL
GetEnv_NoCheck(p) ==
  /\ pc[p] = "getenv"
  /\ runtime_dir' = Set(runtime_dir, p, env)
  /\ pc' = Set(pc, p, "socket")
  /\ UNCHANGED <<active, env, verb, role, value, n, command, reply, fd, r, resp,
                 errlog, ret, trace, retries, wire, dmode, fdtab, store, prevSet>>

\* session_comm: getenv("XDG_RUNTIME_DIR")
GetEnv(p) ==
  /\ pc[p] = "getenv"
  /\ LET rd == env IN
       /\ runtime_dir' = Set(runtime_dir, p, rd)
       /\ IF rd = Unset
          THEN /\ errlog' = Set(errlog, p, errlog[p] \o <<"XDG_RUNTIME_DIR not set">>)
               /\ ret' = Set(ret, p, -1)
               /\ pc' = Set(pc, p, "return")
          ELSE /\ pc' = Set(pc, p, "socket")
               /\ UNCHANGED <<errlog, ret>>
  /\ UNCHANGED <<active, env, verb, role, value, n, command, reply, fd, r, resp,
                 trace, retries, wire, dmode, fdtab, store, prevSet>>

\* session_comm: socket(PF_LOCAL, SOCK_STREAM | SOCK_CLOEXEC, 0)
Socket(p) ==
  /\ pc[p] = "socket"
  /\ \E ok \in BOOLEAN :
       LET f == IF ok THEN LowestFree(fdtab) ELSE -1 IN
         /\ fd' = Set(fd, p, f)
         /\ IF f < 0
            THEN /\ errlog' = Set(errlog, p, errlog[p] \o <<"socket">>)
                 /\ ret' = Set(ret, p, -1)
                 /\ pc' = Set(pc, p, "return")
                 /\ UNCHANGED <<fdtab, trace>>
            ELSE /\ fdtab' = [fdtab EXCEPT ![f] = p]
                 /\ trace' = Set(trace, p, Append(trace[p],
                                   [op |-> "socket", fd |-> f, ok |-> TRUE]))
                 /\ pc' = Set(pc, p, "path")
                 /\ UNCHANGED <<errlog, ret>>
  /\ UNCHANGED <<active, env, verb, role, value, n, command, reply, runtime_dir, r,
                 resp, retries, wire, dmode, store, prevSet>>

\* NameSize without the "+ 1" for the terminator
NameSize_NoTerminator(rd) == rd + 1 + NameLen

\* snprintf(addr.sun_path, sizeof(addr.sun_path), "%s/"NAME, runtime_dir) + 1
NameSize(rd) == (rd + 1 + NameLen) + 1

\* session_comm: the socket path is built and its length checked
PathCheck(p) ==
  /\ pc[p] = "path"
  /\ IF NameSize(runtime_dir[p]) > SunPathSize
     THEN FailClose(p, <<"socket path exceeds 108 bytes">>, <<>>)
     ELSE /\ pc' = Set(pc, p, "connect")
          /\ UNCHANGED <<errlog, trace, fdtab, ret, retries>>
  /\ UNCHANGED <<active, env, verb, role, value, n, command, reply, runtime_dir, fd,
                 r, resp, wire, dmode, store, prevSet>>

\* session_comm: connect(fd, &addr, sizeof(addr))
Connect(p) ==
  /\ pc[p] = "connect"
  /\ \E ok \in BOOLEAN :
       IF ok
       THEN /\ trace' = Set(trace, p, Append(trace[p], Ev("connect", p, fd[p])))
            /\ pc' = Set(pc, p, "write")
            /\ UNCHANGED <<errlog, fdtab, ret, retries>>
       ELSE FailClose(p, <<"connect">>, <<Ev("connect", p, fd[p])>>)
  /\ UNCHANGED <<active, env, verb, role, value, n, command, reply, runtime_dir, fd,
                 r, resp, wire, dmode, store, prevSet>>

\* Retry with EAGAIN and EINTR handled like any other errno
Retry_Fails(p, op) ==
  /\ retries[p] < MaxRetries
  /\ r' = Set(r, p, -1)
  /\ FailClose(p, <<op>>, <<Ev(op, p, fd[p])>>)

\* the write or read (op) returned -1 with EAGAIN or EINTR: "continue"
Retry(p, op) ==
  /\ retries[p] < MaxRetries
  /\ retries' = Set(retries, p, retries[p] + 1)
  /\ r' = Set(r, p, -1)
  /\ trace' = Set(trace, p, Append(trace[p], Ev(op, p, fd[p])))
  /\ UNCHANGED <<pc, errlog, fdtab, ret>>

\* how many bytes a write of len bytes may accept: all of them, or fewer
WriteCounts(len) == {k \in {1, len - 1, len} : 1 <= k /\ k <= len}

\* session_comm: one write(fd, command, strlen(command)) of the write loop
\* and, when the loop ends, the check of what it left in r
Write(p) ==
  /\ pc[p] = "write"
  /\ \/ \* r < 0 with EAGAIN or EINTR: continue
        /\ Retry(p, "write")
        /\ UNCHANGED wire
     \/ \* r < 0 with another errno: perror, r = 0, break
        /\ r' = Set(r, p, 0)
        /\ FailClose(p, <<"write", "Nothing was written">>, <<Ev("write", p, fd[p])>>)
        /\ UNCHANGED wire
     \/ \* r = 0
        /\ r' = Set(r, p, 0)
        /\ FailClose(p, <<"Nothing was written">>, <<Ev("write", p, fd[p])>>)
        /\ UNCHANGED wire
     \/ \* r > 0: the socket accepted the first r bytes
        \E k \in WriteCounts(Len(command[p])) :
          /\ r' = Set(r, p, k)
          /\ wire' = Set(wire, p, SubSeq(command[p], 1, k))
          /\ trace' = Set(trace, p, Append(trace[p], Ev("write", p, fd[p])))
          /\ retries' = Set(retries, p, 0)
          /\ pc' = Set(pc, p, "read")
          /\ UNCHANGED <<errlog, fdtab, ret>>
  /\ UNCHANGED <<active, env, verb, role, value, n, command, reply, runtime_dir, fd,
                 resp, dmode, store, prevSet>>

\* the bytes the daemon sends in answer to the bytes w, in mode m
DaemonData(m, st, w, dflt) ==
  CASE m = "coop" -> DaemonAnswer(st, w, dflt)
    [] m = "neg" -> NegReply
    [] m = "long" -> LongReply

DaemonModes == {"coop", "neg", "long"}

\* ReadZero without the "if (r == 0)" exit: an empty reply is returned
ReadZero_Success(p) ==
  /\ r' = Set(r, p, 0)
  /\ reply' = Set(reply, p, <<>>)
  /\ errlog' = errlog
  /\ trace' = Set(trace, p, trace[p] \o CloseTrace(p, <<Ev("read", p, fd[p])>>))
  /\ fdtab' = CloseFd(fdtab, p, fd[p])
  /\ ret' = Set(ret, p, 0)
  /\ retries' = Set(retries, p, 0)
  /\ pc' = Set(pc, p, "return")

\* session_comm: read returned 0, the loop ends and "if (r == 0)" is taken
ReadZero(p) ==
  /\ r' = Set(r, p, 0)
  /\ FailClose(p, <<"EOF">>, <<Ev("read", p, fd[p])>>)
  /\ UNCHANGED reply

\* session_comm: one read(fd, reply, reply_size) of the read loop and, when
\* the loop ends, the check of r, the terminator and the close
Read(p) ==
  /\ pc[p] = "read"
  /\ \/ \* r < 0 with EAGAIN or EINTR: continue
        /\ Retry(p, "read")
        /\ UNCHANGED <<reply, dmode, store>>
     \/ \* r < 0 with another errno: perror, r = 0, break
        /\ r' = Set(r, p, 0)
        /\ FailClose(p, <<"read", "EOF">>, <<Ev("read", p, fd[p])>>)
        /\ UNCHANGED <<reply, dmode, store>>
     \/ \* r = 0: the daemon closed the connection
        /\ dmode' = Set(dmode, p, "eof")
        /\ ReadZero(p)
        /\ UNCHANGED store
     \/ \* r > 0: the first r bytes of what the daemon sent; reply[r] = '\0'
        \E m \in DaemonModes, dflt \in DaemonDefaults :
          LET data == DaemonData(m, store, wire[p], dflt)
              k == Min(Len(data), ReplySize)
          IN /\ r' = Set(r, p, k)
             /\ reply' = Set(reply, p, SubSeq(data, 1, k))
             /\ dmode' = Set(dmode, p, m)
             /\ store' = IF m = "coop" THEN DaemonStore(store, wire[p]) ELSE store
             /\ \/ \* the terminator is stored and the function goes on
                   /\ trace' = Set(trace, p,
                                   trace[p] \o CloseTrace(p, <<Ev("read", p, fd[p])>>))
                   /\ fdtab' = CloseFd(fdtab, p, fd[p])
                   /\ ret' = Set(ret, p, 0)
                   /\ retries' = Set(retries, p, 0)
                   /\ pc' = Set(pc, p, "return")
                \/ \* reply[reply_size] is outside the array: the store may
                   \* also bring the process down
                   /\ k >= ReplySize
                   /\ trace' = Set(trace, p, Append(trace[p], Ev("read", p, fd[p])))
                   /\ pc' = [q \in Procs |-> "crashed"]
                   /\ UNCHANGED <<fdtab, ret, retries>>
             /\ UNCHANGED errlog
  /\ UNCHANGED <<active, env, verb, role, value, n, command, runtime_dir, fd, resp,
                 wire, prevSet>>

\* HandlerAnswer without the test of the parsed reply
HandlerAnswer_NoNegCheck(v, rt, k) ==
  IF rt < 0 THEN ReqFail(CommFailedMsg) ELSE ReqSuccess(v, k)

\* what the handler answers when session_comm returned rt and the reply
\* parses to k
HandlerAnswer(v, rt, k) ==
  IF rt < 0 THEN ReqFail(CommFailedMsg)
  ELSE IF k < 0 THEN ReqFail(DaemonFailedMsg)
  ELSE ReqSuccess(v, k)

\* the handler after session_comm returned: the reply to the request
Respond(p) ==
  /\ pc[p] = "return"
  /\ LET k == IF ret[p] < 0 THEN n[p] ELSE atoi(reply[p])
         answer == HandlerAnswer(verb[p], ret[p], k)
     IN /\ n' = Set(n, p, k)
        /\ resp' = Set(resp, p, Append(resp[p], answer))
        /\ prevSet' = IF ~value[p].given THEN prevSet
                      ELSE IF answer.status = "success" /\ dmode[p] = "coop"
                      THEN [verb |-> verb[p], role |-> role[p], val |-> n[p]]
                      ELSE NoEntry
  /\ pc' = Set(pc, p, "done")
  /\ UNCHANGED <<active, env, verb, role, value, command, reply, runtime_dir, fd, r,
                 ret, errlog, trace, retries, wire, dmode, fdtab, store>>

\* the callback returns and the thread waits for the next request
Finish(p) ==
  /\ pc[p] = "done"
  /\ pc' = Set(pc, p, "idle")
  /\ verb' = Set(verb, p, NULL)
  /\ role' = Set(role, p, <<>>)
  /\ value' = Set(value, p, NoValue)
  /\ n' = Set(n, p, -1)
  /\ command' = Set(command, p, <<>>)
  /\ reply' = Set(reply, p, <<>>)
  /\ runtime_dir' = Set(runtime_dir, p, Unset)
  /\ fd' = Set(fd, p, -1)
  /\ r' = Set(r, p, 0)
  /\ ret' = Set(ret, p, 0)
  /\ resp' = Set(resp, p, <<>>)
  /\ errlog' = Set(errlog, p, <<>>)
  /\ trace' = Set(trace, p, <<>>)
  /\ retries' = Set(retries, p, 0)
  /\ wire' = Set(wire, p, <<>>)
  /\ dmode' = Set(dmode, p, NULL)
  /\ UNCHANGED <<active, env, fdtab, store, prevSet>>

Next ==
  \E p \in Procs :
    \/ \E v \in Verbs, rl \in Roles, val \in Values : Call(p, v, rl, val)
    \/ ParseValue(p)
    \/ GetEnv(p)
    \/ Socket(p)
    \/ PathCheck(p)
    \/ Connect(p)
    \/ Write(p)
    \/ Read(p)
    \/ Respond(p)
    \/ Finish(p)

Spec == Init /\ [][Next]_vars

\* interleaved verb calls
SpecConc == InitConc /\ [][Next]_vars

\* a step of the callback thread p runs: every statement of the handlers
\* and of session_comm
Step(p) ==
  \/ ParseValue(p)
  \/ GetEnv(p)
  \/ Socket(p)
  \/ PathCheck(p)
  \/ Connect(p)
  \/ Write(p)
  \/ Read(p)
  \/ Respond(p)
  \/ Finish(p)

\* one verb call at a time, where a callback that can take a step does:
\* no system call blocks for ever and EAGAIN/EINTR come at most MaxRetries
\* times in a row
SpecLive == Init /\ [][Next]_vars /\ WF_vars(\E p \in Procs : Step(p))

TypeOK ==
  /\ active \subseteq Procs
  /\ env \in RuntimeDirs
  /\ \A p \in Procs :
       /\ pc[p] \in {"idle", "handler", "getenv", "socket", "path", "connect",
                     "write", "read", "return", "done", "crashed"}
       /\ verb[p] \in Verbs \cup {NULL}
       /\ value[p] \in Values
       /\ fd[p] \in Fds \cup {-1}
       /\ ret[p] \in {0, -1}
       /\ Len(command[p]) < CommandSize
       /\ Len(resp[p]) <= 1

\* ------------------------------------------------------------------ claims
\* the positions of a verb call at which session_comm has returned
Returned(p) == pc[p] \in {"return", "done"}

\* the close calls a thread made in its call
Closes(p) == {i \in DOMAIN trace[p] : trace[p][i].op = "close"}

\* the calls of op a thread made in its call
Calls(p, op) == {i \in DOMAIN trace[p] : trace[p][i].op = op}

\* the documented inclusive range of each verb
DocRange(v) ==
  CASE v = "volume" -> 0..100
    [] v = "mute" -> 0..1
    [] v = "zone" -> 0..4

\* the request has a value and its parsed integer is outside the range
OutOfRange(p) == value[p].given /\ atoi(value[p].text) \notin DocRange(verb[p])

ValidationMsgs == {InvalidMsg(v) : v \in Verbs}

\* C1: when session_comm has returned and its socket() call had succeeded,
\* the call closed that socket exactly once, the close is the last socket
\* operation of the call, every operation was made on the open socket, and
\* the descriptor is no longer an open socket of the thread.
C1_ClosedExactlyOnce ==
  \A p \in Procs :
    (Returned(p) /\ fd[p] \in Fds) =>
      /\ Cardinality(Closes(p)) = 1
      /\ trace[p][Len(trace[p])].op = "close"
      /\ \A i \in DOMAIN trace[p] : trace[p][i].ok /\ trace[p][i].fd = fd[p]
      /\ fdtab[fd[p]] # p

\* a call that failed at the path-length check after opening a socket
C1_Witness ==
  \E p \in Procs :
    /\ Returned(p) /\ fd[p] \in Fds /\ ret[p] = -1
    /\ errlog[p] = <<"socket path exceeds 108 bytes">>
    /\ Cardinality(Closes(p)) = 1

\* C2: once the handler has looked at a value whose parsed integer is
\* outside the verb's range, the call is over with one failure reply that
\* carries a validation message, and session_comm was never entered: the
\* environment was not read, no socket was created and nothing was
\* connected, written or read.
C2_OutOfRangeNoTransport ==
  \A p \in Procs :
    (pc[p] \notin {"idle", "handler", "crashed"} /\ OutOfRange(p)) =>
      /\ pc[p] = "done"
      /\ Len(resp[p]) = 1
      /\ resp[p][1].status = "failed"
      /\ resp[p][1].info \in ValidationMsgs
      /\ trace[p] = <<>> /\ fd[p] = -1 /\ wire[p] = <<>>
      /\ runtime_dir[p] = Unset /\ errlog[p] = <<>> /\ command[p] = <<>>

\* a zone call with the value 42 was refused
C2_Witness ==
  \E p \in Procs :
    /\ pc[p] = "done" /\ verb[p] = "zone" /\ value[p] = Given(<<"4", "2">>)
    /\ resp[p][1].info \in ValidationMsgs

\* C3 as stated: with XDG_RUNTIME_DIR unset, every finished verb call,
\* whatever its arguments, failed with the missing-variable error of
\* session_comm, and no socket was created.
C3_Original ==
  env = Unset =>
    \A p \in Procs :
      /\ trace[p] = <<>> /\ fd[p] = -1
      /\ pc[p] = "done" =>
           /\ errlog[p] = <<"XDG_RUNTIME_DIR not set">>
           /\ resp[p] = <<ReqFail(CommFailedMsg)>>

\* C3 amended: with XDG_RUNTIME_DIR unset, every finished verb call failed
\* and no socket was created; the failure is the missing-variable error of
\* session_comm when the value is absent or in range, and the validation
\* error when the value is out of range.
C3_UnsetEnvFails ==
  env = Unset =>
    \A p \in Procs :
      /\ trace[p] = <<>> /\ fd[p] = -1
      /\ pc[p] = "done" =>
           /\ Len(resp[p]) = 1 /\ resp[p][1].status = "failed"
           /\ IF OutOfRange(p)
              THEN resp[p][1].info \in ValidationMsgs /\ errlog[p] = <<>>
              ELSE /\ errlog[p] = <<"XDG_RUNTIME_DIR not set">>
                   /\ resp[p] = <<ReqFail(CommFailedMsg)>>

\* a query failed because the variable is unset
C3_Witness ==
  \E p \in Procs :
    /\ env = Unset /\ pc[p] = "done" /\ ~value[p].given
    /\ errlog[p] = <<"XDG_RUNTIME_DIR not set">>

\* the bytes of the path "<runtime_dir>/pipewire-media-session" with its
\* terminator, for a runtime directory of rd characters
PathBytes(rd) == rd + 1 + 22 + 1

\* C4: once session_comm has built the socket path and the path with its
\* terminator is longer than 108 bytes, the call has failed at the length
\* check (with that error alone) and has made no connect call.
C4_TooLongNoConnect ==
  \A p \in Procs :
    (pc[p] \in {"connect", "write", "read", "return", "done"}
       /\ fd[p] \in Fds /\ PathBytes(runtime_dir[p]) > 108) =>
      /\ Returned(p)
      /\ ret[p] = -1
      /\ errlog[p] = <<"socket path exceeds 108 bytes">>
      /\ Calls(p, "connect") = {}
      /\ wire[p] = <<>>

\* a path of 109 bytes was refused
C4_Witness ==
  \E p \in Procs :
    /\ Returned(p) /\ fd[p] \in Fds /\ PathBytes(runtime_dir[p]) = 109
    /\ errlog[p] = <<"socket path exceeds 108 bytes">>

\* session_comm ran and returned success in the call
TransportOk(p) == pc[p] = "done" /\ command[p] # <<>> /\ ret[p] = 0

\* session_comm ran and returned failure in the call
TransportFailed(p) == pc[p] = "done" /\ command[p] # <<>> /\ ret[p] = -1

\* C5: when session_comm succeeded and the reply parses to a negative
\* integer, the call's only reply is the failure "media-session replied -1";
\* a call whose session_comm failed never gets that reply, so the two
\* failures differ for the caller.
C5_NegativeReplyFails ==
  \A p \in Procs :
    /\ (TransportOk(p) /\ atoi(reply[p]) < 0) =>
         /\ resp[p] = <<ReqFail("media-session replied -1")>>
         /\ resp[p][1].status # "success"
    /\ TransportFailed(p) =>
         /\ Len(resp[p]) = 1
         /\ resp[p][1].info # "media-session replied -1"

\* the daemon replied "-1" and the call failed
C5_Witness ==
  \E p \in Procs :
    /\ TransportOk(p) /\ reply[p] = <<"-", "1">>
    /\ resp[p] = <<ReqFail("media-session replied -1")>>

\* the validation message that names the verb and its range
DocInvalidMsg(v) ==
  CASE v = "volume" -> "Invalid volume value (must be between 0 and 100)"
    [] v = "mute" -> "Invalid mute value (must be between 0 and 1)"
    [] v = "zone" -> "Invalid zone value (must be between 0 and 4)"

\* C6: a finished call whose session_comm failed, whatever the cause, got
\* the one reply "media-session communication failed"; a call refused for
\* its value got the message that names the verb and its range; a call
\* whose reply parsed negative got the daemon failure message.
C6_FailureOutcomes ==
  \A p \in Procs :
    pc[p] = "done" =>
      /\ TransportFailed(p) => resp[p] = <<ReqFail("media-session communication failed")>>
      /\ OutOfRange(p) => resp[p] = <<ReqFail(DocInvalidMsg(verb[p]))>>
      /\ (TransportOk(p) /\ atoi(reply[p]) < 0) =>
           resp[p] = <<ReqFail("media-session replied -1")>>

\* C7: a query answered with success by the cooperative daemon, made right
\* after a set of v for the same verb and role that the cooperative daemon
\* answered with success, returns v.
C7_SetThenGet ==
  \A p \in Procs :
    (pc[p] = "done" /\ ~value[p].given /\ dmode[p] = "coop"
       /\ prevSet.verb = verb[p] /\ prevSet.role = role[p]
       /\ resp[p][1].status = "success") =>
      resp[p][1].val = prevSet.val

\* C8: when read returned 0 on the first byte, session_comm returned -1
\* after printing "EOF", the socket was closed exactly once as the last
\* operation, and the caller got the communication failure; and whenever
\* session_comm returned success, the reply holds at least one byte.
C8_EofFails ==
  \A p \in Procs :
    /\ (Returned(p) /\ dmode[p] = "eof") =>
         /\ ret[p] = -1
         /\ r[p] = 0
         /\ errlog[p] = <<"EOF">>
         /\ Cardinality(Closes(p)) = 1
         /\ trace[p][Len(trace[p])].op = "close"
         /\ fdtab[fd[p]] # p
         /\ pc[p] = "done" => resp[p] = <<ReqFail("media-session communication failed")>>
    /\ (Returned(p) /\ command[p] # <<>> /\ ret[p] = 0) =>
         /\ r[p] >= 1
         /\ Len(reply[p]) = r[p]

\* the daemon closed the connection and the call failed
C8_Witness ==
  \E p \in Procs :
    /\ pc[p] = "done" /\ dmode[p] = "eof" /\ errlog[p] = <<"EOF">>
    /\ Cardinality(Closes(p)) = 1
    /\ resp[p] = <<ReqFail("media-session communication failed")>>

\* the integer a request carries: the parsed value, or -1 for a query
SentValue(p) == IF value[p].given THEN atoi(value[p].text) ELSE -1

\* C9: the bytes the daemon received are exactly "<verb> <role> <n>" with
\* the caller's verb and role and with n the parsed value of a set request,
\* which is in the verb's range, or -1 for a query.
C9_RequestText ==
  \A p \in Procs :
    wire[p] # <<>> =>
      /\ wire[p] = VerbText(verb[p]) \o <<" ">> \o role[p] \o <<" ">> \o FmtInt(SentValue(p))
      /\ value[p].given => SentValue(p) \in DocRange(verb[p])

\* C10: when session_comm is at the read step, the socket has accepted every
\* byte of the command.
C10_FullCommandWritten ==
  \A p \in Procs :
    pc[p] = "read" => wire[p] = command[p]

\* C11: the terminator session_comm stores after a read of r bytes lies
\* inside the reply buffer: the index r, which is the number of bytes the
\* buffer received, is less than the buffer's size of 10.
C11_TerminatorInside ==
  \A p \in Procs :
    Len(reply[p]) > 0 => (r[p] = Len(reply[p]) /\ r[p] < 10)

\* C12: a write or read that returns -1 with EAGAIN or EINTR leaves the call
\* in the same loop on the same open descriptor, with nothing closed,
\* nothing printed and no result set; a write or read that ends its loop
\* with r = 0 (another error, a zero-byte write, end of file) makes
\* session_comm close the socket and return -1 with no further write or
\* read.
C12_TransientRetried ==
  [][\A p \in Procs :
       /\ (pc[p] \in {"write", "read"} /\ r'[p] = -1 /\ trace'[p] # trace[p]) =>
            /\ pc'[p] = pc[p]
            /\ fd'[p] = fd[p] /\ fdtab' = fdtab
            /\ trace'[p] = Append(trace[p], [op |-> pc[p], fd |-> fd[p], ok |-> TRUE])
            /\ errlog'[p] = errlog[p] /\ ret'[p] = ret[p] /\ wire'[p] = wire[p]
       /\ (pc[p] \in {"write", "read"} /\ r'[p] = 0 /\ trace'[p] # trace[p]) =>
            /\ pc'[p] = "return" /\ ret'[p] = -1
            /\ trace'[p] = trace[p] \o <<[op |-> pc[p], fd |-> fd[p], ok |-> TRUE],
                                         [op |-> "close", fd |-> fd[p], ok |-> TRUE]>>
            /\ fdtab'[fd[p]] = 0
    ]_vars

\* a call that was answered with success after a write and a read were
\* each retried
C12_Witness ==
  \E p \in Procs :
    /\ pc[p] = "done" /\ resp[p][1].status = "success"
    /\ Cardinality(Calls(p, "write")) = 2 /\ Cardinality(Calls(p, "read")) = 2

\* the descriptors that are open sockets of a thread
Owned(p) == {f \in Fds : fdtab[f] = p}

\* C13: a verb call makes at most one socket call and at most one connect
\* call; once session_comm has failed nothing of the call is left open and
\* the call has made no second socket or connect call; and a thread holds
\* no open socket and no trace of an earlier call when it is between calls
\* or has not yet reached socket(), so each call opens its own socket.
C13_FreshConnectionPerCall ==
  \A p \in Procs :
    /\ Cardinality(Calls(p, "socket")) <= 1
    /\ Cardinality(Calls(p, "connect")) <= 1
    /\ (Returned(p) /\ ret[p] = -1) => Owned(p) = {}
    /\ pc[p] \in {"idle", "handler", "getenv", "socket"} =>
         (Owned(p) = {} /\ trace[p] = <<>> /\ fd[p] = -1 /\ wire[p] = <<>>)
    /\ pc[p] \in {"return", "done"} => Owned(p) = {}
    /\ pc[p] \in {"path", "connect", "write", "read"} =>
         (Owned(p) = {fd[p]} /\ trace[p][1] = [op |-> "socket", fd |-> fd[p], ok |-> TRUE])

\* a call holds its own socket at the connect step after an earlier set
\* call was answered with success
C13_Witness ==
  \E p \in Procs :
    /\ pc[p] = "connect" /\ Owned(p) = {fd[p]}
    /\ prevSet # NoEntry

\* the characters of the text "<verb> <role> <n>" the handler formats
FullTextLen(p) == Len(VerbText(verb[p])) + 1 + Len(role[p]) + 1 + Len(FmtInt(SentValue(p)))

\* C14: when the text "<verb> <role> <value>" with its terminator needs
\* more than the 100 bytes of the command buffer, the call fails and no
\* byte of a command is written to the daemon.
C14_NoTruncatedCommand ==
  \A p \in Procs :
    (verb[p] \in Verbs /\ pc[p] \notin {"idle", "handler"} /\ ~OutOfRange(p)
       /\ FullTextLen(p) + 1 > 100) =>
      /\ wire[p] = <<>>
      /\ Calls(p, "write") = {}
      /\ pc[p] = "done" => resp[p][1].status = "failed"

\* C15 as stated: a call that failed at the path-length check has made no
\* socket call.
C15_Original ==
  \A p \in Procs :
    errlog[p] = <<"socket path exceeds 108 bytes">> =>
      (Calls(p, "socket") = {} /\ fd[p] = -1)

\* C15 amended: the path length is checked after the socket is opened and
\* before connect: at the check the call has made its socket call and
\* nothing else, a call that failed at the check has made exactly a socket
\* call and the close of that socket, and a call that has made a connect
\* call has a path that fits.
C15_CheckedAfterSocket ==
  \A p \in Procs :
    /\ pc[p] = "path" =>
         trace[p] = <<[op |-> "socket", fd |-> fd[p], ok |-> TRUE]>>
    /\ errlog[p] = <<"socket path exceeds 108 bytes">> =>
         /\ fd[p] \in Fds
         /\ trace[p] = <<[op |-> "socket", fd |-> fd[p], ok |-> TRUE],
                         [op |-> "close", fd |-> fd[p], ok |-> TRUE]>>
         /\ Owned(p) = {}
         /\ ret[p] = -1
    /\ Calls(p, "connect") # {} => PathBytes(runtime_dir[p]) <= 108

\* a call answered with the communication failure after the length check
\* refused its path: its socket was opened and closed
C15_Witness ==
  \E p \in Procs :
    /\ pc[p] = "done" /\ PathBytes(env) > 108
    /\ errlog[p] = <<"socket path exceeds 108 bytes">>
    /\ Len(trace[p]) = 2 /\ trace[p][1].op = "socket" /\ trace[p][2].op = "close"
    /\ resp[p] = <<ReqFail("media-session communication failed")>>

\* everything a thread's call holds, its position aside
CallData(p) ==
  <<verb[p], role[p], value[p], n[p], command[p], reply[p], runtime_dir[p],
    fd[p], r[p], ret[p], resp[p], errlog[p], trace[p], wire[p]>>

\* the answer that follows from a call's own session_comm result and reply
OwnAnswer(p) ==
  IF ret[p] = -1 THEN ReqFail("media-session communication failed")
  ELSE IF atoi(reply[p]) < 0 THEN ReqFail("media-session replied -1")
  ELSE ReqSuccess(verb[p], atoi(reply[p]))

\* every socket operation of a call was made on the call's own open socket,
\* two calls in their exchange hold different sockets, what the daemon
\* received on a call's connection is the start of that call's command, and
\* the answer of a finished call follows from its own result and reply
C16_Inv ==
  \A p \in Procs :
    /\ \A i \in DOMAIN trace[p] : trace[p][i].ok /\ trace[p][i].fd = fd[p]
    /\ pc[p] \in {"path", "connect", "write", "read"} => fdtab[fd[p]] = p
    /\ \A q \in Procs \ {p} :
         (fd[p] \in Fds /\ fd[q] \in Fds /\ Owned(p) # {} /\ Owned(q) # {}) =>
           fd[p] # fd[q]
    /\ Len(wire[p]) <= Len(command[p])
    /\ wire[p] = SubSeq(command[p], 1, Len(wire[p]))
    /\ (pc[p] = "done" /\ command[p] # <<>>) => resp[p] = <<OwnAnswer(p)>>

\* C16: with interleaved verb calls, each socket is used only by the call
\* that opened it and each call's answer follows from its own arguments and
\* exchange (C16_Inv), and no step changes what two calls hold: a step that
\* changes the data of one call leaves the data of every other call as it
\* was.
C16_CallsIndependent ==
  /\ []C16_Inv
  /\ [][\A p \in Procs : \A q \in Procs \ {p} :
          CallData(p)' # CallData(p) => CallData(q)' = CallData(q)]_vars

\* two calls are in their exchanges at once, each on its own socket
C16_Witness ==
  /\ pc[1] = "read" /\ pc[2] = "read"
  /\ fdtab[fd[1]] = 1 /\ fdtab[fd[2]] = 2
  /\ wire[1] # wire[2]

C18_AnsweredOnce ==
  \A p \in Procs :
    /\ pc[p] \in {"idle", "handler", "getenv", "socket", "path", "connect",
                  "write", "read", "return"} => resp[p] = <<>>
    /\ pc[p] = "done" =>
         /\ Len(resp[p]) = 1
         /\ resp[p][1].status \in {"failed", "success"}
         /\ resp[p][1].status = "success" =>
              /\ ~OutOfRange(p)
              /\ ret[p] = 0 /\ Calls(p, "read") # {} /\ Len(reply[p]) >= 1
              /\ atoi(reply[p]) >= 0
              /\ resp[p][1].val = atoi(reply[p])
              /\ resp[p][1].key = verb[p]

\* the daemon replied "42" to a volume call and the call returned 42
C18_Witness ==
  \E p \in Procs :
    /\ pc[p] = "done" /\ verb[p] = "volume" /\ reply[p] = <<"4", "2">>
    /\ resp[p] = <<ReqSuccess("volume", 42)>>

\* C19: when session_comm failed, nothing was read into the reply buffer and
\* the handler answered without parsing it, its integer still being the one
\* it sent; when session_comm succeeded, the reply buffer holds the bytes of
\* the one read that returned data and, after them and inside its 10 bytes,
\* the terminator, and the handler's integer is the parsed reply.
C19_ReplyReadAfterSuccess ==
  \A p \in Procs :
    /\ (Returned(p) /\ command[p] # <<>> /\ ret[p] = -1) =>
         /\ reply[p] = <<>>
         /\ pc[p] = "done" =>
              /\ n[p] = SentValue(p)
              /\ resp[p] = <<ReqFail("media-session communication failed")>>
    /\ (Returned(p) /\ command[p] # <<>> /\ ret[p] = 0) =>
         /\ r[p] >= 1 /\ Len(reply[p]) = r[p]
         /\ r[p] + 1 <= 10
         /\ pc[p] = "done" => n[p] = atoi(reply[p])

====
